---- MODULE Spec2Model ----
(***************************************************************************)
(* The cluster crypto graph of recert (src/src/cluster_crypto.rs):         *)
(* ClusterCryptoObjectsInternal, its four registries, the public-to-       *)
(* private index, the cert-key pairs, and the phases that build and        *)
(* regenerate the graph.                                                   *)
(*                                                                         *)
(* Shared records (Rc<RefCell<..>>) are modelled by where they live:       *)
(* a record of a registry is named by its registry key (its content at     *)
(* discovery), a cert-key pair by its index in cert_key_pairs (the Vec     *)
(* only grows), and a record owned by one pair alone (its cert, its        *)
(* private key once removed from the registry) is held in the pair.        *)
(* Option values are sequences: <<>> is None, <<v>> is Some(v).            *)
(***************************************************************************)
EXTENDS Integers, Sequences, FiniteSets, TLC

\* Distinct discovery events one run may hold.
MaxEvents == 5
\* Times the phase sequence may be applied.
MaxPasses == 2

None == <<>>
Some(v) == <<v>>
IsSome(o) == o # <<>>
Unwrap(o) == o[1]

Range(s) == {s[i] : i \in DOMAIN s}

\* The orders a HashMap may iterate a key set in: every permutation.
Orders(S) == {s \in [1..Cardinality(S) -> S] : Range(s) = S}

(***************************************************************************)
(* Collaborators the graph engine calls into                               *)
(***************************************************************************)

\* PublicKey::from(&PrivateKey): the public half derived from a private key.
PublicKeyFrom(k) == <<"pub", k>>

\* Certificate::subject_is_issuer
subject_is_issuer(cert) == cert.subject = cert.issuer

\* X509Certificate::verify_signed_by_certificate(child, candidate): the
\* algorithm is resolved first, the signature is checked after.
verify_signed_by_certificate(child, candidate) ==
    CASE child.alg = "unsupported" -> "UnsupportedSignatureVerification"
      [] child.alg = "malformed" -> "OtherError"
      [] child.signed_with = candidate.public_key -> "Ok"
      [] OTHER -> "CertificateSignatureVerificationFailed"

\* crypto_utils::openssl_is_signed(candidate pair, child pair)
openssl_is_signed(candidate, child) ==
    child.distributed_cert.certificate.signed_with
        = candidate.distributed_cert.certificate.public_key

\* crypto_utils::verify_jwt(public key, distributed jwt): Ok or Err
verify_jwt(pub, distributed_jwt) == distributed_jwt.jwt.signed_with = pub

\* Regex::is_match of one allowlist entry on a subject: an unanchored search,
\* "ANY" in the entry standing for a one-token wildcard.
RegexIsMatch(pattern, subject) ==
    \E off \in 0..(Len(subject) - Len(pattern)) :
        \A i \in 1..Len(pattern) :
            pattern[i] = "ANY" \/ pattern[i] = subject[off + i]

\* rules::KNOWN_MISSING_PRIVATE_KEY_CERTS
KNOWN_MISSING_PRIVATE_KEY_CERTS == {<<"root", "ca">>, <<"ANY", "signer">>}

(***************************************************************************)
(* What the cluster holds: the contents discovery can report               *)
(***************************************************************************)

Locations == {"etcd", "disk"}

PrivateKeys == {1, 2}

PublicKeys == {PublicKeyFrom(1), PublicKeyFrom(2)}

Cert(der, subject, issuer, key, signed_with, alg) ==
    [der |-> der, subject |-> subject, issuer |-> issuer,
     public_key |-> PublicKeyFrom(key), signed_with |-> PublicKeyFrom(signed_with),
     alg |-> alg]

\* A self-signed root, holder of key 1.
CertRoot == Cert("root", <<"root", "ca">>, <<"root", "ca">>, 1, 1, "rsa")
\* A second cert on key 1, signed with key 1 under another issuer name.
CertCross == Cert("cross", <<"kubelet", "signer">>, <<"root", "ca">>, 1, 1, "rsa")
\* A leaf on key 2 issued by key 1; its subject is not allowlisted.
CertLeaf == Cert("leaf", <<"admin">>, <<"root", "ca">>, 2, 1, "rsa")
\* A leaf issued by key 1 with an algorithm the native library cannot verify.
CertEcdsa == Cert("ecdsa", <<"csr", "signer">>, <<"root", "ca">>, 3, 1, "unsupported")
\* A cert on which native verification fails with another error.
CertBroken == Cert("broken", <<"aggregator", "signer">>, <<"root", "ca">>, 4, 1, "malformed")

Certificates == {CertRoot, CertCross, CertLeaf, CertEcdsa, CertBroken}

Jwt(token, key) == [token |-> token, signed_with |-> PublicKeyFrom(key)]

Jwts == {Jwt("sa1", 1), Jwt("sa2", 2)}

\* crypto_objects::DiscoveredCryptoObect {crypto_object, location}; a private
\* key is reported with the public half discovery derived from it.
Discovered(kind, object, location) ==
    [kind |-> kind, object |-> object, location |-> location]

AllEvents ==
    {Discovered("PrivateKey", <<k, PublicKeyFrom(k)>>, l) : k \in PrivateKeys, l \in Locations}
    \cup {Discovered("PublicKey", p, l) : p \in PublicKeys, l \in Locations}
    \cup {Discovered("Certificate", c, l) : c \in Certificates, l \in Locations}
    \cup {Discovered("Jwt", j, l) : j \in Jwts, l \in Locations}

\* The cluster's layout: every content is in etcd; the root's key, public key,
\* cert and token are on disk as well.
OnDisk ==
    {Discovered("PrivateKey", <<1, PublicKeyFrom(1)>>, "disk"),
     Discovered("PublicKey", PublicKeyFrom(1), "disk"),
     Discovered("Certificate", CertRoot, "disk"),
     Discovered("Jwt", Jwt("sa1", 1), "disk")}

Events == {e \in AllEvents : e.location = "etcd"} \cup OnDisk

\* The vectors one register call may be handed: none, one or two events.
Batches == {<<>>} \cup {<<e>> : e \in Events} \cup {<<e1, e2>> : e1 \in Events, e2 \in Events}

(***************************************************************************)
(* State                                                                   *)
(***************************************************************************)

VARIABLES
    private_keys,       \* HashMap<PrivateKey, DistributedPrivateKey>
    public_keys,        \* HashMap<PublicKey, DistributedPublicKey>
    certs,              \* HashMap<Certificate, DistributedCert>
    jwts,               \* HashMap<Jwt, DistributedJwt>
    public_to_private,  \* HashMap<PublicKey, PrivateKey>
    cert_key_pairs,     \* Vec<CertKeyPair>
    pc,                 \* the last phase completed ("register": ingestion open)
    pass,               \* which application of the phase sequence this is
    fault,              \* the panic message of an aborted run, "" otherwise
    iteration,          \* the order each closed HashMap iterates in
    rsa_key_pool,       \* RsaKeyPool: how many keys have been drawn from it
    discovered,         \* history: the events folded so far
    issued,             \* history: the re-issuances of regenerate_crypto, in order
    first,              \* history: the graph as the previous pass left it
    mutex,              \* tokio Mutex of the aggregate: the call holding it, or None
    pending,            \* the commit in flight: the records it has still to write
    writes,             \* persistence collaborator: the writes of this run, in order
    first_writes,       \* history: the writes of the previous run
    displayed,          \* history: how many times display has printed
    observer            \* the second task: "idle", or "waiting" in display for the mutex

\* What only commit_to_etcd_and_disk and display touch.
committer == <<mutex, pending, writes, first_writes, displayed, observer>>

graph == <<private_keys, public_keys, certs, jwts, public_to_private, cert_key_pairs>>
vars == <<private_keys, public_keys, certs, jwts, public_to_private, cert_key_pairs,
          pc, pass, fault, iteration, rsa_key_pool, discovered, issued, first,
          mutex, pending, writes, first_writes, displayed, observer>>

\* The graph as one value, for the operators that fold over it.
Graph ==
    [private_keys |-> private_keys, public_keys |-> public_keys, certs |-> certs,
     jwts |-> jwts, public_to_private |-> public_to_private,
     cert_key_pairs |-> cert_key_pairs, fault |-> ""]

SetGraph(g) ==
    /\ private_keys' = g.private_keys
    /\ public_keys' = g.public_keys
    /\ certs' = g.certs
    /\ jwts' = g.jwts
    /\ public_to_private' = g.public_to_private
    /\ cert_key_pairs' = g.cert_key_pairs

\* self.internal.lock().await: the call goes on once no call holds the mutex.
\* The guard is a temporary of the statement, dropped when the statement ends.
lock == mutex = None

\* HashMap::insert / Entry::insert
Put(m, k, v) == [x \in (DOMAIN m) \cup {k} |-> IF x = k THEN v ELSE m[x]]
\* HashMap::remove
Remove(m, k) == [x \in (DOMAIN m) \ {k} |-> m[x]]

\* ClusterCryptoObjectsInternal::new
Init ==
    /\ private_keys = <<>>
    /\ public_keys = <<>>
    /\ certs = <<>>
    /\ jwts = <<>>
    /\ public_to_private = <<>>
    /\ cert_key_pairs = <<>>
    /\ pc = "register"
    /\ pass = 1
    /\ fault = ""
    /\ iteration = [private_keys |-> <<>>, jwts |-> <<>>]
    /\ rsa_key_pool = 0
    /\ discovered = {}
    /\ issued = <<>>
    /\ first = None
    /\ mutex = None
    /\ pending = <<>>
    /\ writes = <<>>
    /\ first_writes = None
    /\ displayed = 0
    /\ observer = "idle"

(***************************************************************************)
(* register_discovered_crypto_objects                                      *)
(***************************************************************************)

\* Mutant of AddLocation: the new location replaces the record's Locations.
AddLocationOverwrites(m, k, location) ==
    [m EXCEPT ![k].locations = {location}]

\* Mutant of AddLocation: the new location joins the Locations of every
\* record of the registry.
AddLocationToAll(m, k, location) ==
    [o \in DOMAIN m |-> [m[o] EXCEPT !.locations = @ \cup {location}]]

\* Occupied: the location joins the record's Locations.
AddLocation(m, k, location) ==
    [m EXCEPT ![k].locations = @ \cup {location}]

\* Mutant of RegisterOne: every event inserts a fresh record under the
\* content, as HashMap::insert would, whether the content was seen or not.
RegisterOneInsertsAnew(g, e) ==
    CASE e.kind = "PrivateKey" ->
        [g EXCEPT
           !.public_to_private = Put(@, e.object[2], e.object[1]),
           !.private_keys = Put(@, e.object[1],
                                [locations |-> {e.location}, key |-> e.object[1],
                                 signees |-> <<>>,
                                 associated_distributed_public_key |-> None,
                                 regenerated |-> FALSE])]
      [] e.kind = "PublicKey" ->
        [g EXCEPT !.public_keys =
            Put(@, e.object, [locations |-> {e.location}, key |-> e.object,
                              regenerated |-> FALSE])]
      [] e.kind = "Certificate" ->
        [g EXCEPT !.certs =
            Put(@, e.object, [certificate |-> e.object, locations |-> {e.location}])]
      [] e.kind = "Jwt" ->
        [g EXCEPT !.jwts =
            Put(@, e.object, [jwt |-> e.object, locations |-> {e.location},
                              signer |-> <<"Unknown">>, regenerated |-> FALSE])]

\* One iteration of the loop over discovered_crypto_objects.
RegisterOne(g, e) ==
    CASE e.kind = "PrivateKey" ->
        LET private_part == e.object[1]
            public_part == e.object[2]
        IN [g EXCEPT
              !.public_to_private = Put(@, public_part, private_part),
              !.private_keys =
                 IF private_part \in DOMAIN @
                 THEN AddLocation(@, private_part, e.location)
                 ELSE Put(@, private_part,
                          [locations |-> {e.location}, key |-> private_part,
                           signees |-> <<>>,
                           associated_distributed_public_key |-> None,
                           regenerated |-> FALSE])]
      [] e.kind = "PublicKey" ->
        [g EXCEPT !.public_keys =
            IF e.object \in DOMAIN @
            THEN AddLocation(@, e.object, e.location)
            ELSE Put(@, e.object,
                     [locations |-> {e.location}, key |-> e.object,
                      regenerated |-> FALSE])]
      [] e.kind = "Certificate" ->
        [g EXCEPT !.certs =
            IF e.object \in DOMAIN @
            THEN AddLocation(@, e.object, e.location)
            ELSE Put(@, e.object,
                     [certificate |-> e.object, locations |-> {e.location}])]
      [] e.kind = "Jwt" ->
        [g EXCEPT !.jwts =
            IF e.object \in DOMAIN @
            THEN AddLocation(@, e.object, e.location)
            ELSE Put(@, e.object,
                     [jwt |-> e.object, locations |-> {e.location},
                      signer |-> <<"Unknown">>, regenerated |-> FALSE])]

RECURSIVE RegisterAll(_, _)
RegisterAll(g, events) ==
    IF events = <<>> THEN g
    ELSE RegisterAll(RegisterOne(g, Head(events)), Tail(events))

\* A call of register_discovered_crypto_objects. Ingestion is open in the
\* first pass; a later pass is handed the empty vector.
Register(events) ==
    /\ pc = "register"
    /\ lock
    /\ pass = 1 \/ events = <<>>
    /\ Cardinality(discovered \cup Range(events)) <= MaxEvents
    /\ SetGraph(RegisterAll(Graph, events))
    /\ discovered' = discovered \cup Range(events)
    /\ UNCHANGED <<pc, pass, fault, iteration, rsa_key_pool, issued, first, committer>>

\* How a phase ends: it returns, or it panics and the run is over.
Finish(g, done) ==
    /\ SetGraph(g)
    /\ fault' = g.fault
    /\ pc' = IF g.fault = "" THEN done ELSE "aborted"

Panic(g, message) == [g EXCEPT !.fault = message]

\* The elements of sequence s that are in set S, in the order of s.
Restrict(s, S) == SelectSeq(s, LAMBDA x : x \in S)

(***************************************************************************)
(* pair_certs_and_keys                                                     *)
(***************************************************************************)

\* Mutant of KnownMissingPrivateKey: the list is searched for the subject as
\* a literal only.
KnownMissingLiteralOnly(subject) ==
    subject \in KNOWN_MISSING_PRIVATE_KEY_CERTS

\* The allowlist test: the list contains the subject, or one of its entries,
\* compiled as a regex, matches it.
KnownMissingPrivateKey(subject) ==
    \/ subject \in KNOWN_MISSING_PRIVATE_KEY_CERTS
    \/ \E known_missing_private_key_cert \in KNOWN_MISSING_PRIVATE_KEY_CERTS :
          RegexIsMatch(known_missing_private_key_cert, subject)

NewPair(distributed_cert) ==
    [distributed_private_key |-> None, distributed_cert |-> distributed_cert,
     signer |-> None, signees |-> <<>>, associated_public_key |-> None,
     regenerated |-> FALSE]

\* Mutant of PairOne: the paired private key stays in the registry.
PairOneKeepsKey(g, hashable_cert) ==
    LET distributed_cert == g.certs[hashable_cert]
        pair == NewPair(distributed_cert)
        subject_public_key == distributed_cert.certificate.public_key
    IN  IF subject_public_key \in DOMAIN g.public_to_private
        THEN LET private_key == g.public_to_private[subject_public_key]
             IN  IF private_key \in DOMAIN g.private_keys
                 THEN [g EXCEPT
                         !.cert_key_pairs = Append(@,
                             [pair EXCEPT !.distributed_private_key =
                                 Some(g.private_keys[private_key])])]
                 ELSE Panic(g, "Private key not found")
        ELSE IF KnownMissingPrivateKey(distributed_cert.certificate.subject)
        THEN [g EXCEPT !.cert_key_pairs = Append(@, pair)]
        ELSE Panic(g, "Private key not found for cert not in KNOWN_MISSING_PRIVATE_KEY_CERTS")

\* One iteration of the loop over certs.
PairOne(g, hashable_cert) ==
    LET distributed_cert == g.certs[hashable_cert]
        pair == NewPair(distributed_cert)
        subject_public_key == distributed_cert.certificate.public_key
    IN  IF subject_public_key \in DOMAIN g.public_to_private
        THEN LET private_key == g.public_to_private[subject_public_key]
             IN  IF private_key \in DOMAIN g.private_keys
                 THEN [g EXCEPT
                         !.cert_key_pairs = Append(@,
                             [pair EXCEPT !.distributed_private_key =
                                 Some(g.private_keys[private_key])]),
                         !.private_keys = Remove(@, private_key)]
                 ELSE Panic(g, "Private key not found")
        ELSE IF KnownMissingPrivateKey(distributed_cert.certificate.subject)
        THEN [g EXCEPT !.cert_key_pairs = Append(@, pair)]
        ELSE Panic(g, "Private key not found for cert not in KNOWN_MISSING_PRIVATE_KEY_CERTS")

RECURSIVE PairLoop(_, _)
PairLoop(g, order) ==
    IF order = <<>> \/ g.fault # "" THEN g
    ELSE PairLoop(PairOne(g, Head(order)), Tail(order))

\* Mutant of PairCertsAndKeys: only the certs paired with a private key are
\* removed from the registry.
PairCertsAndKeysLeavesKeyless(g, order) ==
    LET paired == PairLoop(g, order)
        keyed == {p.distributed_cert.certificate : p \in
                     {q \in Range(paired.cert_key_pairs) : IsSome(q.distributed_private_key)}}
    IN  IF paired.fault # "" THEN paired
        ELSE [paired EXCEPT !.certs = [c \in (DOMAIN @) \ keyed |-> @[c]]]

\* The loop, then the removal of the paired certs from the registry.
PairCertsAndKeys(g, order) ==
    LET paired == PairLoop(g, order)
    IN  IF paired.fault # "" THEN paired
        ELSE [paired EXCEPT !.certs = [c \in (DOMAIN @) \ Range(order) |-> @[c]]]

\* The phase. Ingestion is closed from here on: the HashMaps are no longer
\* inserted into, and each iterates in one order of its own from now on.
pair_certs_and_keys ==
    /\ pc = "register"
    /\ lock
    /\ \E order \in Orders(DOMAIN certs) :
          Finish(PairCertsAndKeys(Graph, order), "pair")
    /\ IF pass = 1
       THEN iteration' \in [private_keys : Orders(DOMAIN private_keys),
                            jwts : Orders(DOMAIN jwts)]
       ELSE iteration' = iteration
    /\ UNCHANGED <<pass, rsa_key_pool, discovered, issued, first, committer>>

\* HashMap::values of a registry: the closed map's order, less the removed keys.
Values(name, m) == Restrict(iteration[name], DOMAIN m)

(***************************************************************************)
(* associate_public_keys                                                   *)
(***************************************************************************)

\* RefCell::borrow_mut of a record while the borrows in `live` are held.
BorrowMutFails(live, record) == record \in live

\* The temporaries of the if-let scrutinee (the pair's Ref and its cert's Ref)
\* live to the end of the if-let, so through its body.
ScrutineeBorrows(i) == {<<"cert_key_pair", i>>, <<"distributed_cert", i>>}

\* One iteration of the loop over cert_key_pairs.
AssociatePair(g, i) ==
    LET public_key == g.cert_key_pairs[i].distributed_cert.certificate.public_key
    IN  IF public_key \in DOMAIN g.public_keys
        THEN IF BorrowMutFails(ScrutineeBorrows(i), <<"cert_key_pair", i>>)
             THEN Panic(g, "already borrowed: BorrowMutError")
             ELSE [g EXCEPT !.cert_key_pairs[i].associated_public_key = Some(public_key)]
        ELSE g

RECURSIVE AssociatePairs(_, _)
AssociatePairs(g, i) ==
    IF i > Len(g.cert_key_pairs) \/ g.fault # "" THEN g
    ELSE AssociatePairs(AssociatePair(g, i), i + 1)

\* One iteration of the loop over the standalone private keys.
AssociateKey(g, k) ==
    LET public_part == PublicKeyFrom(g.private_keys[k].key)
    IN  IF public_part \in DOMAIN g.public_keys
        THEN [g EXCEPT !.private_keys[k].associated_distributed_public_key =
                          Some(public_part)]
        ELSE g

RECURSIVE AssociateKeys(_, _)
AssociateKeys(g, order) ==
    IF order = <<>> \/ g.fault # "" THEN g
    ELSE AssociateKeys(AssociateKey(g, Head(order)), Tail(order))

associate_public_keys ==
    /\ pc = "pair"
    /\ lock
    /\ Finish(AssociateKeys(AssociatePairs(Graph, 1), Values("private_keys", private_keys)),
              "associate")
    /\ UNCHANGED <<pass, iteration, rsa_key_pool, discovered, issued, first, committer>>

(***************************************************************************)
(* fill_cert_key_signers                                                   *)
(***************************************************************************)

\* Mutant of Candidate: an unsupported algorithm records the candidate without
\* asking the OpenSSL fallback.
CandidateTrustsUnsupported(pairs, i, j) ==
    LET result == verify_signed_by_certificate(
                      pairs[i].distributed_cert.certificate,
                      pairs[j].distributed_cert.certificate)
    IN  CASE result = "Ok" -> "record"
          [] result = "CertificateSignatureVerificationFailed" -> "skip"
          [] result = "UnsupportedSignatureVerification" -> "record"
          [] OTHER -> "panic"

\* Mutant of Candidate: a candidate the OpenSSL fallback does not confirm
\* ends the run.
CandidateAbortsOnUnconfirmed(pairs, i, j) ==
    LET result == verify_signed_by_certificate(
                      pairs[i].distributed_cert.certificate,
                      pairs[j].distributed_cert.certificate)
    IN  CASE result = "Ok" -> "record"
          [] result = "CertificateSignatureVerificationFailed" -> "skip"
          [] result = "UnsupportedSignatureVerification" ->
                IF openssl_is_signed(pairs[j], pairs[i]) THEN "record" ELSE "panic"
          [] OTHER -> "panic"

\* The outcome of one candidate of the scan: the candidate is recorded, it is
\* skipped, or the run panics.
Candidate(pairs, i, j) ==
    LET result == verify_signed_by_certificate(
                      pairs[i].distributed_cert.certificate,
                      pairs[j].distributed_cert.certificate)
    IN  CASE result = "Ok" -> "record"
          [] result = "CertificateSignatureVerificationFailed" -> "skip"
          [] result = "UnsupportedSignatureVerification" ->
                IF openssl_is_signed(pairs[j], pairs[i]) THEN "record" ELSE "skip"
          [] OTHER -> "panic"

\* Mutant of ScanCandidates: the scan stops at the first candidate recorded.
RECURSIVE ScanCandidatesStopsAtMatch(_, _, _, _)
ScanCandidatesStopsAtMatch(pairs, i, j, true_signing_cert) ==
    IF j > Len(pairs) THEN [signer |-> true_signing_cert, fault |-> ""]
    ELSE LET outcome == Candidate(pairs, i, j)
         IN  CASE outcome = "record" -> [signer |-> Some(j), fault |-> ""]
               [] outcome = "skip" ->
                     ScanCandidatesStopsAtMatch(pairs, i, j + 1, true_signing_cert)
               [] OTHER -> [signer |-> true_signing_cert,
                            fault |-> "Error verifying signed by certificate"]

\* The loop over potential_signing_cert_key_pair from candidate j on, with
\* true_signing_cert as found so far: the scan does not stop at a match.
RECURSIVE ScanCandidates(_, _, _, _)
ScanCandidates(pairs, i, j, true_signing_cert) ==
    IF j > Len(pairs) THEN [signer |-> true_signing_cert, fault |-> ""]
    ELSE LET outcome == Candidate(pairs, i, j)
         IN  CASE outcome = "record" -> ScanCandidates(pairs, i, j + 1, Some(j))
               [] outcome = "skip" -> ScanCandidates(pairs, i, j + 1, true_signing_cert)
               [] OTHER -> [signer |-> true_signing_cert,
                            fault |-> "Error verifying signed by certificate"]

\* Mutant of FillCertKeySigner: a pair whose scan found no signer is recorded
\* without one.
FillCertKeySignerRecordsRoot(g, i) ==
    IF subject_is_issuer(g.cert_key_pairs[i].distributed_cert.certificate)
    THEN [g EXCEPT !.cert_key_pairs[i].signer = None]
    ELSE LET scan == ScanCandidates(g.cert_key_pairs, i, 1, None)
         IN  IF scan.fault # "" THEN Panic(g, scan.fault)
             ELSE [g EXCEPT !.cert_key_pairs[i].signer = scan.signer]

\* One iteration of the loop over cert_key_pairs.
FillCertKeySigner(g, i) ==
    IF subject_is_issuer(g.cert_key_pairs[i].distributed_cert.certificate)
    THEN [g EXCEPT !.cert_key_pairs[i].signer = None]
    ELSE LET scan == ScanCandidates(g.cert_key_pairs, i, 1, None)
         IN  IF scan.fault # "" THEN Panic(g, scan.fault)
             ELSE IF scan.signer = None THEN Panic(g, "No signing cert found")
             ELSE [g EXCEPT !.cert_key_pairs[i].signer = scan.signer]

RECURSIVE FillCertKeySigners(_, _)
FillCertKeySigners(g, i) ==
    IF i > Len(g.cert_key_pairs) \/ g.fault # "" THEN g
    ELSE FillCertKeySigners(FillCertKeySigner(g, i), i + 1)

fill_cert_key_signers ==
    /\ pc = "associate"
    /\ lock
    /\ Finish(FillCertKeySigners(Graph, 1), "cert_signers")
    /\ UNCHANGED <<pass, iteration, rsa_key_pool, discovered, issued, first, committer>>

(***************************************************************************)
(* fill_jwt_signers                                                        *)
(***************************************************************************)

\* The scan of the standalone private keys in `order`: the first key whose
\* public half verifies the jwt, or None.
RECURSIVE FirstVerifyingKey(_, _, _)
FirstVerifyingKey(g, order, distributed_jwt) ==
    IF order = <<>> THEN None
    ELSE IF verify_jwt(PublicKeyFrom(g.private_keys[Head(order)].key), distributed_jwt)
    THEN Some(Head(order))
    ELSE FirstVerifyingKey(g, Tail(order), distributed_jwt)

\* The scan of cert_key_pairs from pair i on: the first pair with a private
\* key whose public half verifies the jwt, or None.
RECURSIVE FirstVerifyingPair(_, _, _)
FirstVerifyingPair(g, i, distributed_jwt) ==
    IF i > Len(g.cert_key_pairs) THEN None
    ELSE LET distributed_private_key == g.cert_key_pairs[i].distributed_private_key
         IN  IF /\ IsSome(distributed_private_key)
                /\ verify_jwt(PublicKeyFrom(Unwrap(distributed_private_key).key),
                              distributed_jwt)
             THEN Some(i)
             ELSE FirstVerifyingPair(g, i + 1, distributed_jwt)

\* Mutant of StandaloneGuess: the cached signer is adopted without verifying.
StandaloneGuessTrustsCache(g, keys, last_signer, distributed_jwt) ==
    IF IsSome(last_signer)
    THEN [signer |-> <<"PrivateKey", Unwrap(last_signer)>>, last_signer |-> last_signer]
    ELSE LET found == FirstVerifyingKey(g, keys, distributed_jwt)
         IN  IF IsSome(found)
             THEN [signer |-> <<"PrivateKey", Unwrap(found)>>, last_signer |-> found]
             ELSE [signer |-> <<"Unknown">>, last_signer |-> last_signer]

\* The guess at a standalone signer: with a cached last signer only the cache
\* is tried; the registry is scanned only while nothing is cached.
\* Gives [signer, last_signer].
StandaloneGuess(g, keys, last_signer, distributed_jwt) ==
    IF IsSome(last_signer)
    THEN IF verify_jwt(PublicKeyFrom(g.private_keys[Unwrap(last_signer)].key),
                       distributed_jwt)
         THEN [signer |-> <<"PrivateKey", Unwrap(last_signer)>>, last_signer |-> last_signer]
         ELSE [signer |-> <<"Unknown">>, last_signer |-> last_signer]
    ELSE LET found == FirstVerifyingKey(g, keys, distributed_jwt)
         IN  IF IsSome(found)
             THEN [signer |-> <<"PrivateKey", Unwrap(found)>>, last_signer |-> found]
             ELSE [signer |-> <<"Unknown">>, last_signer |-> last_signer]

\* The signer of one jwt: the standalone guess, else the scan of the pairs.
\* Gives [signer, last_signer].
JwtSignerOf(g, keys, last_signer, distributed_jwt) ==
    LET guess == StandaloneGuess(g, keys, last_signer, distributed_jwt)
    IN  IF guess.signer # <<"Unknown">> THEN guess
        ELSE LET found == FirstVerifyingPair(g, 1, distributed_jwt)
             IN  [signer |-> IF IsSome(found) THEN <<"CertKeyPair", Unwrap(found)>>
                                              ELSE <<"Unknown">>,
                  last_signer |-> guess.last_signer]

\* The loop over jwts.values(), last_signer carried from one jwt to the next.
RECURSIVE FillJwtSigners(_, _, _, _)
FillJwtSigners(g, order, keys, last_signer) ==
    IF order = <<>> \/ g.fault # "" THEN g
    ELSE LET found == JwtSignerOf(g, keys, last_signer, g.jwts[Head(order)])
         IN  IF found.signer = <<"Unknown">>
             THEN Panic(g, "JWT has unknown signer")
             ELSE FillJwtSigners([g EXCEPT !.jwts[Head(order)].signer = found.signer],
                                 Tail(order), keys, found.last_signer)

fill_jwt_signers ==
    /\ pc = "cert_signers"
    /\ lock
    /\ Finish(FillJwtSigners(Graph, Values("jwts", jwts),
                             Values("private_keys", private_keys), None),
              "jwt_signers")
    /\ UNCHANGED <<pass, iteration, rsa_key_pool, discovered, issued, first, committer>>

(***************************************************************************)
(* fill_signees                                                            *)
(***************************************************************************)

\* Equality of two shared cert-key pairs (PartialEq through Rc and RefCell).
\* No two pairs of a run hold the same cert, so it is the pairs' identity.
SamePair(i, j) == i = j

\* Mutant of CertSignees: the signer is matched on its subject public key, not
\* on its cert.
CertSigneesByPublicKey(g, i) ==
    LET signed(potential_signee) ==
            /\ IsSome(potential_signee.signer)
            /\ g.cert_key_pairs[Unwrap(potential_signee.signer)]
                   .distributed_cert.certificate.public_key
               = g.cert_key_pairs[i].distributed_cert.certificate.public_key
        idx == SelectSeq([j \in 1..Len(g.cert_key_pairs) |-> j],
                         LAMBDA j : signed(g.cert_key_pairs[j]))
    IN  [n \in 1..Len(idx) |-> <<"CertKeyPair", idx[n]>>]

\* The cert-key pairs whose signer's cert is the cert of pair i, in Vec order.
CertSignees(g, i) ==
    LET signed(potential_signee) ==
            /\ IsSome(potential_signee.signer)
            /\ g.cert_key_pairs[Unwrap(potential_signee.signer)]
                   .distributed_cert.certificate
               = g.cert_key_pairs[i].distributed_cert.certificate
        idx == SelectSeq([j \in 1..Len(g.cert_key_pairs) |-> j],
                         LAMBDA j : signed(g.cert_key_pairs[j]))
    IN  [n \in 1..Len(idx) |-> <<"CertKeyPair", idx[n]>>]

\* The jwts of `order` whose signer is variant `kind` of `who`, as signees.
JwtSignees(g, order, kind, who) ==
    LET mine == SelectSeq(order, LAMBDA j :
                    /\ g.jwts[j].signer[1] = kind
                    /\ IF kind = "CertKeyPair" THEN SamePair(g.jwts[j].signer[2], who)
                                               ELSE g.jwts[j].signer[2] = who)
    IN  [n \in 1..Len(mine) |-> <<"Jwt", mine[n]>>]

HasUnknownSigner(g) == \E j \in DOMAIN g.jwts : g.jwts[j].signer = <<"Unknown">>

\* One iteration of the first loop: the pair's signees are built afresh and
\* assigned.
FillPairSignees(g, order, i) ==
    IF HasUnknownSigner(g) THEN Panic(g, "JWT has unknown signer")
    ELSE [g EXCEPT !.cert_key_pairs[i].signees =
             CertSignees(g, i) \o JwtSignees(g, order, "CertKeyPair", i)]

RECURSIVE FillPairsSignees(_, _, _)
FillPairsSignees(g, order, i) ==
    IF i > Len(g.cert_key_pairs) \/ g.fault # "" THEN g
    ELSE FillPairsSignees(FillPairSignees(g, order, i), order, i + 1)

\* One iteration of the second loop: the jwts the standalone key signed are
\* pushed onto the signees the key already has.
FillKeySignees(g, order, k) ==
    IF HasUnknownSigner(g) THEN Panic(g, "JWT has unknown signer")
    ELSE [g EXCEPT !.private_keys[k].signees =
             @ \o JwtSignees(g, order, "PrivateKey", k)]

RECURSIVE FillKeysSignees(_, _, _)
FillKeysSignees(g, order, keys) ==
    IF keys = <<>> \/ g.fault # "" THEN g
    ELSE FillKeysSignees(FillKeySignees(g, order, Head(keys)), order, Tail(keys))

fill_signees ==
    /\ pc = "jwt_signers"
    /\ lock
    /\ Finish(FillKeysSignees(FillPairsSignees(Graph, Values("jwts", jwts), 1),
                              Values("jwts", jwts), Values("private_keys", private_keys)),
              "signees")
    /\ UNCHANGED <<pass, iteration, rsa_key_pool, discovered, issued, first, committer>>

(***************************************************************************)
(* regenerate_crypto                                                       *)
(***************************************************************************)

\* RsaKeyPool::get: the n-th key drawn, a key no discovered record holds.
PoolKey(n) == 100 + n

\* DistributedPublicKey::regenerate: the record takes the new public key.
RegeneratePublicKey(r, associated, new_key) ==
    IF IsSome(associated)
    THEN [r EXCEPT !.public_keys[Unwrap(associated)] =
             [@ EXCEPT !.key = PublicKeyFrom(new_key), !.regenerated = TRUE]]
    ELSE r

\* DistributedJwt::regenerate: the token is signed again with the new key.
RegenerateJwt(r, j, signing_key) ==
    [r EXCEPT !.jwts[j] = [@ EXCEPT !.jwt.signed_with = PublicKeyFrom(signing_key),
                                    !.regenerated = TRUE],
              !.issued = Append(@, [artifact |-> <<"Jwt", j>>, signed_with |-> signing_key])]

RECURSIVE RegeneratePair(_, _, _)
RECURSIVE RegenerateSignees(_, _, _)

\* CertKeyPair::regenerate(sign_with, pool): a new key is drawn, the cert is
\* issued again on it, signed with the parent's new key or, for a root, with
\* its own; then every signee is regenerated under the new key.
RegeneratePair(r, i, sign_with) ==
    LET new_key == PoolKey(r.rsa_key_pool)
        signing_key == IF IsSome(sign_with) THEN Unwrap(sign_with) ELSE new_key
        pair == r.cert_key_pairs[i]
        reissued ==
            [pair EXCEPT
                !.distributed_cert.certificate.public_key = PublicKeyFrom(new_key),
                !.distributed_cert.certificate.signed_with = PublicKeyFrom(signing_key),
                !.distributed_private_key =
                    IF IsSome(@)
                    THEN Some([Unwrap(@) EXCEPT !.key = new_key, !.regenerated = TRUE])
                    ELSE @,
                !.regenerated = TRUE]
        r1 == [r EXCEPT !.rsa_key_pool = @ + 1,
                        !.cert_key_pairs[i] = reissued,
                        !.issued = Append(@, [artifact |-> <<"CertKeyPair", i>>,
                                              signed_with |-> signing_key])]
    IN  RegenerateSignees(RegeneratePublicKey(r1, pair.associated_public_key, new_key),
                          pair.signees, new_key)

\* The signees of a regenerated signer, each regenerated in turn.
RegenerateSignees(r, signees, new_key) ==
    IF signees = <<>> THEN r
    ELSE LET signee == Head(signees)
             next == IF signee[1] = "CertKeyPair"
                     THEN RegeneratePair(r, signee[2], Some(new_key))
                     ELSE RegenerateJwt(r, signee[2], new_key)
         IN  RegenerateSignees(next, Tail(signees), new_key)

\* DistributedPrivateKey::regenerate(pool): a new key is drawn and every jwt
\* of the signees is signed again with it.
RegeneratePrivateKey(r, k) ==
    LET new_key == PoolKey(r.rsa_key_pool)
        key == r.private_keys[k]
        r1 == [r EXCEPT !.rsa_key_pool = @ + 1,
                        !.private_keys[k] = [@ EXCEPT !.key = new_key, !.regenerated = TRUE]]
    IN  RegenerateSignees(
            RegeneratePublicKey(r1, key.associated_distributed_public_key, new_key),
            key.signees, new_key)

\* The first loop of regenerate_crypto: the pairs with no signer, in Vec order.
RECURSIVE RegenerateRoots(_, _)
RegenerateRoots(r, i) ==
    IF i > Len(r.cert_key_pairs) THEN r
    ELSE RegenerateRoots(IF IsSome(r.cert_key_pairs[i].signer) THEN r
                         ELSE RegeneratePair(r, i, None),
                         i + 1)

\* The second loop: the standalone private keys.
RECURSIVE RegenerateKeys(_, _)
RegenerateKeys(r, keys) ==
    IF keys = <<>> THEN r
    ELSE RegenerateKeys(RegeneratePrivateKey(r, Head(keys)), Tail(keys))

\* Signee equality, as Vec::contains uses it.
SameSignee(a, b) ==
    /\ a[1] = b[1]
    /\ IF a[1] = "CertKeyPair" THEN SamePair(a[2], b[2]) ELSE a[2] = b[2]

SigneeRegenerated(g, signee) ==
    IF signee[1] = "CertKeyPair" THEN g.cert_key_pairs[signee[2]].regenerated
    ELSE g.jwts[signee[2]].regenerated

\* The assertions of assert_regeneration on cert-key pair i, in order: the
\* message of the first that fails, "" when all hold.
AssertPair(g, i) ==
    LET cert_key_pair == g.cert_key_pairs[i]
        signer == g.cert_key_pairs[Unwrap(cert_key_pair.signer)]
    IN  CASE IsSome(cert_key_pair.signer) /\ ~signer.regenerated ->
                "Didn't seem to regenerate signer"
          [] IsSome(cert_key_pair.signer) /\ ~(Len(signer.signees) > 0) ->
                "Zero signees signer"
          [] /\ IsSome(cert_key_pair.signer)
             /\ \E n \in DOMAIN signer.signees : ~SigneeRegenerated(g, signer.signees[n]) ->
                "Didn't seem to regenerate signee"
          [] /\ IsSome(cert_key_pair.signer)
             /\ ~\E n \in DOMAIN signer.signees :
                    SameSignee(signer.signees[n], <<"CertKeyPair", i>>) ->
                "Signer doesn't have cert-key pair as a signee"
          [] ~cert_key_pair.regenerated -> "Didn't seem to regenerate cert"
          [] OTHER -> ""

RECURSIVE AssertPairs(_, _)
AssertPairs(g, i) ==
    IF i > Len(g.cert_key_pairs) THEN ""
    ELSE IF AssertPair(g, i) # "" THEN AssertPair(g, i)
    ELSE AssertPairs(g, i + 1)

\* assert_regeneration: the message of the first assertion that fails.
AssertRegeneration(g) ==
    CASE AssertPairs(g, 1) # "" -> AssertPairs(g, 1)
      [] \E p \in DOMAIN g.public_keys : ~g.public_keys[p].regenerated ->
            "Didn't seem to regenerate public key"
      [] \E j \in DOMAIN g.jwts : ~g.jwts[j].regenerated ->
            "Didn't seem to regenerate jwt"
      [] \E k \in DOMAIN g.private_keys : ~g.private_keys[k].regenerated ->
            "Didn't seem to regenerate private key"
      [] Cardinality(DOMAIN g.certs) # 0 -> "assertion failed: certs.len() == 0"
      [] OTHER -> ""

\* Mutant of RegenerateCrypto: the two loops, and no assert_regeneration.
RegenerateCryptoUnverified(r, keys) ==
    RegenerateKeys(RegenerateRoots(r, 1), keys)

\* The two loops, then the assertions.
RegenerateCrypto(r, keys) ==
    LET regenerated == RegenerateKeys(RegenerateRoots(r, 1), keys)
    IN  Panic(regenerated, AssertRegeneration(regenerated))

regenerate_crypto ==
    /\ pc = "signees"
    /\ lock
    /\ LET r == RegenerateCrypto(
                    Graph @@ [rsa_key_pool |-> rsa_key_pool, issued |-> <<>>],
                    Values("private_keys", private_keys))
       IN  /\ Finish(r, "regenerate")
           /\ rsa_key_pool' = r.rsa_key_pool
           /\ issued' = r.issued
    /\ UNCHANGED <<pass, iteration, discovered, first, committer>>

(***************************************************************************)
(* commit_to_etcd_and_disk                                                 *)
(***************************************************************************)

\* What one record has still to write: <<kind, record, locations>>.
ToCommit(kind, record, locations) == <<kind, record, locations>>

\* CertKeyPair::commit_to_etcd_and_disk: the pair's cert at the cert's
\* locations, then its private key, when it has one, at the key's locations.
CommitPair(g, i) ==
    LET cert_key_pair == g.cert_key_pairs[i]
    IN  <<ToCommit("Certificate", i, cert_key_pair.distributed_cert.locations)>>
        \o IF IsSome(cert_key_pair.distributed_private_key)
           THEN <<ToCommit("PairPrivateKey", i,
                           Unwrap(cert_key_pair.distributed_private_key).locations)>>
           ELSE <<>>

\* The first loop: the cert-key pairs from pair i on, in Vec order.
RECURSIVE CommitPairs(_, _)
CommitPairs(g, i) ==
    IF i > Len(g.cert_key_pairs) THEN <<>>
    ELSE CommitPair(g, i) \o CommitPairs(g, i + 1)

\* A loop over the values of registry m, iterated in `order`.
CommitValues(kind, m, order) ==
    [n \in 1..Len(order) |-> ToCommit(kind, order[n], m[order[n]].locations)]

\* Mutant of CommitQueue: the loop over public_keys is left out.
CommitQueueWithoutPublicKeys(g, jwts_order, keys_order, public_keys_order) ==
    CommitPairs(g, 1)
    \o CommitValues("Jwt", g.jwts, jwts_order)
    \o CommitValues("PrivateKey", g.private_keys, keys_order)

\* The four loops of commit_to_etcd_and_disk, as the records they visit.
CommitQueue(g, jwts_order, keys_order, public_keys_order) ==
    CommitPairs(g, 1)
    \o CommitValues("Jwt", g.jwts, jwts_order)
    \o CommitValues("PrivateKey", g.private_keys, keys_order)
    \o CommitValues("PublicKey", g.public_keys, public_keys_order)

\* The current serialised form of a record, as its commit method reads it.
CurrentForm(g, kind, record) ==
    CASE kind = "Certificate" -> g.cert_key_pairs[record].distributed_cert.certificate
      [] kind = "PairPrivateKey" ->
            Unwrap(g.cert_key_pairs[record].distributed_private_key).key
      [] kind = "Jwt" -> g.jwts[record].jwt
      [] kind = "PrivateKey" -> g.private_keys[record].key
      [] kind = "PublicKey" -> g.public_keys[record].key

\* One write of the persistence collaborator.
Write(kind, record, location, content) == <<kind, record, location, content>>

\* Mutant of GuardAcrossAwait: the guard is dropped when the body suspends.
GuardDroppedAtAwait(guard) == None

\* The MutexGuard is a temporary of the statement
\* `self.internal.lock().await.commit_to_etcd_and_disk(etcd_client).await;`
\* and lives to its end: the mutex stays held while the body is suspended.
GuardAcrossAwait(guard) == guard

\* The call: the mutex is taken and the loops start.
commit_to_etcd_and_disk ==
    /\ pc = "regenerate"
    /\ lock
    /\ mutex' = Some("commit_to_etcd_and_disk")
    /\ \E public_keys_order \in Orders(DOMAIN public_keys) :
          pending' = CommitQueue(Graph, Values("jwts", jwts),
                                 Values("private_keys", private_keys), public_keys_order)
    /\ pc' = "committing"
    /\ UNCHANGED <<graph, pass, fault, iteration, rsa_key_pool, discovered, issued, first,
                   writes, first_writes, displayed, observer>>

\* One awaited write: the record at the head of the loops writes its current
\* form to one more of its locations, in the order its Locations iterates.
commit_at_location ==
    /\ pc = "committing"
    /\ pending # <<>>
    /\ LET kind == Head(pending)[1]
           record == Head(pending)[2]
           locations == Head(pending)[3]
       IN  \E location \in locations :
              /\ writes' = Append(writes, Write(kind, record, location,
                                                CurrentForm(Graph, kind, record)))
              /\ pending' = IF locations = {location} THEN Tail(pending)
                            ELSE <<ToCommit(kind, record, locations \ {location})>>
                                 \o Tail(pending)
    /\ mutex' = GuardAcrossAwait(mutex)
    /\ UNCHANGED <<graph, pc, pass, fault, iteration, rsa_key_pool, discovered, issued,
                   first, first_writes, displayed, observer>>

\* The loops are over: the call returns and the guard is dropped.
commit_returns ==
    /\ pc = "committing"
    /\ pending = <<>>
    /\ mutex' = None
    /\ pc' = "commit"
    /\ UNCHANGED <<graph, pass, fault, iteration, rsa_key_pool, discovered, issued, first,
                   pending, writes, first_writes, displayed, observer>>

(***************************************************************************)
(* display                                                                 *)
(***************************************************************************)

\* Times a second task may call display.
MaxDisplays == 1

\* A task other than the one driving the phases calls display: the call
\* reaches self.internal.lock().await.
display_called ==
    /\ observer = "idle"
    /\ displayed < MaxDisplays
    /\ observer' = "waiting"
    /\ UNCHANGED <<graph, pc, pass, fault, iteration, rsa_key_pool, discovered, issued,
                   first, mutex, pending, writes, first_writes, displayed>>

\* The waiting call gets the mutex: display prints the roots and the
\* standalone keys, and returns.
display ==
    /\ observer = "waiting"
    /\ lock
    /\ displayed' = displayed + 1
    /\ observer' = "idle"
    /\ UNCHANGED <<graph, pc, pass, fault, iteration, rsa_key_pool, discovered, issued,
                   first, mutex, pending, writes, first_writes>>

(***************************************************************************)
(* The driver                                                              *)
(***************************************************************************)

\* The caller runs the whole phase sequence again, on an empty stream.
Rerun ==
    /\ pc = "commit"
    /\ pass < MaxPasses
    /\ pass' = pass + 1
    /\ pc' = "register"
    /\ first' = Some(Graph)
    /\ first_writes' = Some(writes)
    /\ writes' = <<>>
    /\ UNCHANGED <<graph, fault, iteration, rsa_key_pool, discovered, issued,
                   mutex, pending, displayed, observer>>

\* The caller applies the phases again, from register, to the closed stream.
Reapply ==
    /\ pc = "signees"
    /\ pass < MaxPasses
    /\ pass' = pass + 1
    /\ pc' = "register"
    /\ first' = Some(Graph)
    /\ first_writes' = None
    /\ UNCHANGED <<graph, fault, iteration, rsa_key_pool, discovered, issued,
                   mutex, pending, writes, displayed, observer>>

Next ==
    \/ \E events \in Batches : Register(events)
    \/ pair_certs_and_keys
    \/ associate_public_keys
    \/ fill_cert_key_signers
    \/ fill_jwt_signers
    \/ fill_signees
    \/ regenerate_crypto
    \/ commit_to_etcd_and_disk
    \/ commit_at_location
    \/ commit_returns
    \/ Reapply
    \/ Rerun

Spec == Init /\ [][Next]_vars

\* The stream of the runs a second task watches: a standalone key that signs
\* a token, the key's public half, and a root at two locations.
TaskEvents ==
    {Discovered("PrivateKey", <<2, PublicKeyFrom(2)>>, "etcd"),
     Discovered("PublicKey", PublicKeyFrom(2), "etcd"),
     Discovered("Jwt", Jwt("sa2", 2), "etcd"),
     Discovered("Certificate", CertRoot, "etcd"),
     Discovered("Certificate", CertRoot, "disk"),
     Discovered("Certificate", CertLeaf, "etcd")}

TaskBatches == {<<>>} \cup {<<e>> : e \in TaskEvents}

\* One run of the phases in order, with a second task calling display.
TaskNext ==
    \/ \E events \in TaskBatches : Register(events)
    \/ pair_certs_and_keys
    \/ associate_public_keys
    \/ fill_cert_key_signers
    \/ fill_jwt_signers
    \/ fill_signees
    \/ regenerate_crypto
    \/ commit_to_etcd_and_disk
    \/ commit_at_location
    \/ commit_returns
    \/ display_called
    \/ display

TaskSpec == Init /\ [][TaskNext]_vars

(***************************************************************************)
(* Properties                                                              *)
(***************************************************************************)

Of(kind) == {e \in discovered : e.kind = kind}

\* The locations the stream reported content `object` of `kind` at.
Sites(kind, object) == {e.location : e \in {d \in Of(kind) : d.object = object}}

\* C1: while ingestion is open, each registry holds one record per content
\* of the stream folded so far, no other, and the record's Locations is the
\* set of locations that content was reported at.
C1_RegistriesFoldStream ==
    (pc = "register" /\ pass = 1) =>
        /\ DOMAIN private_keys = {e.object[1] : e \in Of("PrivateKey")}
        /\ \A k \in DOMAIN private_keys :
              /\ private_keys[k].key = k
              /\ private_keys[k].locations
                    = {e.location : e \in {d \in Of("PrivateKey") : d.object[1] = k}}
        /\ DOMAIN public_keys = {e.object : e \in Of("PublicKey")}
        /\ \A p \in DOMAIN public_keys :
              /\ public_keys[p].key = p
              /\ public_keys[p].locations = Sites("PublicKey", p)
        /\ DOMAIN certs = {e.object : e \in Of("Certificate")}
        /\ \A c \in DOMAIN certs :
              /\ certs[c].certificate = c
              /\ certs[c].locations = Sites("Certificate", c)
        /\ DOMAIN jwts = {e.object : e \in Of("Jwt")}
        /\ \A j \in DOMAIN jwts :
              /\ jwts[j].jwt = j
              /\ jwts[j].locations = Sites("Jwt", j)

\* C1 witness: a stream of several contents, one of them seen at two locations.
C1_Witness ==
    /\ pc = "register"
    /\ Cardinality(discovered) >= 3
    /\ \E c \in DOMAIN certs : certs[c].locations = Locations
    /\ \E k \in DOMAIN private_keys : Cardinality(private_keys[k].locations) = 1

\* Whether the cert of pair j was confirmed to have signed the cert of pair i:
\* natively, or by OpenSSL where the native library has no verifier.
ConfirmedSigner(pairs, i, j) ==
    LET result == verify_signed_by_certificate(
                      pairs[i].distributed_cert.certificate,
                      pairs[j].distributed_cert.certificate)
    IN  \/ result = "Ok"
        \/ result = "UnsupportedSignatureVerification"
              /\ openssl_is_signed(pairs[j], pairs[i])

\* C2: once fill_cert_key_signers has completed, a pair whose cert has
\* subject = issuer has no signer, and every other pair has as signer a pair
\* whose cert was confirmed to have signed its cert.
C2_CertSignersConfirmed ==
    pc = "cert_signers" =>
        \A i \in DOMAIN cert_key_pairs :
            IF subject_is_issuer(cert_key_pairs[i].distributed_cert.certificate)
            THEN cert_key_pairs[i].signer = None
            ELSE /\ IsSome(cert_key_pairs[i].signer)
                 /\ Unwrap(cert_key_pairs[i].signer) \in DOMAIN cert_key_pairs
                 /\ ConfirmedSigner(cert_key_pairs, i, Unwrap(cert_key_pairs[i].signer))

\* C2 witness: a completed resolution with a root, a natively verified child
\* of it and a child confirmed by the fallback.
C2_Witness ==
    /\ pc = "cert_signers"
    /\ \E r, n, u \in DOMAIN cert_key_pairs :
          /\ cert_key_pairs[r].distributed_cert.certificate = CertRoot
          /\ cert_key_pairs[r].signer = None
          /\ cert_key_pairs[n].distributed_cert.certificate = CertLeaf
          /\ cert_key_pairs[n].signer = Some(r)
          /\ cert_key_pairs[u].distributed_cert.certificate = CertEcdsa
          /\ cert_key_pairs[u].signer = Some(r)

\* The public half of the private key a jwt signer names.
PublicOfSigner(signer) ==
    IF signer[1] = "PrivateKey"
    THEN PublicKeyFrom(private_keys[signer[2]].key)
    ELSE PublicKeyFrom(Unwrap(cert_key_pairs[signer[2]].distributed_private_key).key)

\* C3: once fill_jwt_signers has completed, no jwt has signer Unknown and the
\* public half of the key each signer names verifies the jwt.
C3_JwtSignersVerify ==
    pc = "jwt_signers" =>
        \A j \in DOMAIN jwts :
            /\ jwts[j].signer # <<"Unknown">>
            /\ jwts[j].signer[1] = "PrivateKey" => jwts[j].signer[2] \in DOMAIN private_keys
            /\ jwts[j].signer[1] = "CertKeyPair" =>
                  /\ jwts[j].signer[2] \in DOMAIN cert_key_pairs
                  /\ IsSome(cert_key_pairs[jwts[j].signer[2]].distributed_private_key)
            /\ verify_jwt(PublicOfSigner(jwts[j].signer), jwts[j])

\* C3 witness: a completed resolution with a jwt signed by a standalone key
\* and a jwt signed by a pair's key.
C3_Witness ==
    /\ pc = "jwt_signers"
    /\ \E j \in DOMAIN jwts : jwts[j].signer[1] = "PrivateKey"
    /\ \E j \in DOMAIN jwts : jwts[j].signer[1] = "CertKeyPair"

\* Whether some discovered private key, standalone or paired, verifies the jwt.
Verifiable(distributed_jwt) ==
    \/ \E k \in DOMAIN private_keys :
          verify_jwt(PublicKeyFrom(private_keys[k].key), distributed_jwt)
    \/ \E i \in DOMAIN cert_key_pairs :
          /\ IsSome(cert_key_pairs[i].distributed_private_key)
          /\ verify_jwt(PublicKeyFrom(Unwrap(cert_key_pairs[i].distributed_private_key).key),
                        distributed_jwt)

\* The signer a resolver without the last-signer cache gives a jwt: the first
\* verifying standalone key, else the first verifying pair.
UncachedSigner(distributed_jwt) ==
    JwtSignerOf(Graph, Values("private_keys", private_keys), None, distributed_jwt).signer

\* Whether fill_jwt_signers was the phase that aborted the run.
UnknownSignerFault == pc = "aborted" /\ fault = "JWT has unknown signer"

\* C4 (as claimed): fill_jwt_signers raises the unknown-signer fault only if
\* some jwt is verified by no standalone key and by no pair's key, and where it
\* completes every jwt has the signer the cache-free scan gives it.
C4_AbortsOnlyIfUnverifiable ==
    /\ UnknownSignerFault => \E j \in DOMAIN jwts : ~Verifiable(jwts[j])
    /\ pc = "jwt_signers" =>
          \A j \in DOMAIN jwts : jwts[j].signer = UncachedSigner(jwts[j])

\* The set of the elements of a sequence without repetition in it.
NoRepeat(s) == \A m, n \in DOMAIN s : m # n => s[m] # s[n]

\* C5: after the first fill_signees, the signees of a pair are, each once, the
\* pairs whose signer it is and the jwts whose signer is CertKeyPair of it; and
\* the signees of a standalone key are, each once, the jwts whose signer is
\* PrivateKey of it.
C5_SigneesInvertSigners ==
    (pc = "signees" /\ pass = 1) =>
        /\ \A c \in DOMAIN cert_key_pairs :
              /\ NoRepeat(cert_key_pairs[c].signees)
              /\ Range(cert_key_pairs[c].signees)
                    = {<<"CertKeyPair", i>> : i \in
                          {n \in DOMAIN cert_key_pairs : cert_key_pairs[n].signer = Some(c)}}
                      \cup {<<"Jwt", j>> : j \in
                          {t \in DOMAIN jwts : jwts[t].signer = <<"CertKeyPair", c>>}}
        /\ \A k \in DOMAIN private_keys :
              /\ NoRepeat(private_keys[k].signees)
              /\ Range(private_keys[k].signees)
                    = {<<"Jwt", j>> : j \in
                          {t \in DOMAIN jwts : jwts[t].signer = <<"PrivateKey", k>>}}

\* C5 witness: a completed backfill where a pair signs a pair and a jwt, next
\* to a second pair on the same key that signs nothing.
C5_Witness ==
    /\ pc = "signees"
    /\ pass = 1
    /\ \E c, d \in DOMAIN cert_key_pairs :
          /\ c # d
          /\ cert_key_pairs[c].distributed_cert.certificate.public_key
                = cert_key_pairs[d].distributed_cert.certificate.public_key
          /\ \E n \in DOMAIN cert_key_pairs : <<"CertKeyPair", n>> \in Range(cert_key_pairs[c].signees)
          /\ cert_key_pairs[d].signees = <<>>

\* C5 witness, its second half: a standalone key that signs a jwt.
C5_KeyWitness ==
    /\ pc = "signees"
    /\ pass = 1
    /\ \E k \in DOMAIN private_keys : Len(private_keys[k].signees) = 1

\* The certs the stream reported.
DiscoveredCerts == {e.object : e \in Of("Certificate")}

\* The pairs whose distributed_cert holds cert c.
PairsOf(c) == {i \in DOMAIN cert_key_pairs : cert_key_pairs[i].distributed_cert.certificate = c}

\* C8: once pair_certs_and_keys has completed, the standalone certs registry
\* is empty and every cert that was in it is the distributed_cert, Locations
\* included, of exactly one cert-key pair.
C8_CertsMoveIntoPairs ==
    (pc = "pair" /\ pass = 1) =>
        /\ DOMAIN certs = {}
        /\ \A c \in DiscoveredCerts :
              /\ Cardinality(PairsOf(c)) = 1
              /\ \A i \in PairsOf(c) :
                    cert_key_pairs[i].distributed_cert.locations = Sites("Certificate", c)
        /\ \A i \in DOMAIN cert_key_pairs :
              cert_key_pairs[i].distributed_cert.certificate \in DiscoveredCerts

\* C8 witness: a completed pairing of a cert with its key and of a cert on
\* the allowlist that has none.
C8_Witness ==
    /\ pc = "pair"
    /\ pass = 1
    /\ \E i, j \in DOMAIN cert_key_pairs :
          /\ IsSome(cert_key_pairs[i].distributed_private_key)
          /\ cert_key_pairs[j].distributed_private_key = None

\* The private keys the stream reported.
DiscoveredKeys == {e.object[1] : e \in Of("PrivateKey")}

\* The pairs whose distributed_private_key is the record of private key k.
PairsHolding(k) ==
    {i \in DOMAIN cert_key_pairs :
        /\ IsSome(cert_key_pairs[i].distributed_private_key)
        /\ Unwrap(cert_key_pairs[i].distributed_private_key).key = k}

\* C9: once pair_certs_and_keys has completed, a discovered private key is in
\* the standalone registry iff no cert of the run has its derived public key
\* as subject public key, and every other discovered private key is the
\* distributed_private_key of a pair.
C9_StandaloneIffUnmatched ==
    (pc = "pair" /\ pass = 1) =>
        /\ DOMAIN private_keys \subseteq DiscoveredKeys
        /\ \A k \in DiscoveredKeys :
              /\ k \in DOMAIN private_keys
                    <=> ~\E c \in DiscoveredCerts : c.public_key = PublicKeyFrom(k)
              /\ k \notin DOMAIN private_keys => PairsHolding(k) # {}

\* C9 witness: a completed pairing that took one private key into a pair and
\* left another standalone.
C9_Witness ==
    /\ pc = "pair"
    /\ pass = 1
    /\ \E k \in DiscoveredKeys : k \in DOMAIN private_keys
    /\ \E k \in DiscoveredKeys : k \notin DOMAIN private_keys /\ PairsHolding(k) # {}

\* C10 (as claimed): when the phases from register to fill_signees have been
\* applied again to the closed stream, the graph equals the graph the first
\* application left.
C10_SecondApplicationChangesNothing ==
    (pc = "signees" /\ pass = 2) => Graph = Unwrap(first)

\* The messages assert_regeneration panics with.
AssertionMessages ==
    {"Didn't seem to regenerate signer", "Zero signees signer",
     "Didn't seem to regenerate signee",
     "Signer doesn't have cert-key pair as a signee",
     "Didn't seem to regenerate cert", "Didn't seem to regenerate public key",
     "Didn't seem to regenerate jwt", "Didn't seem to regenerate private key",
     "assertion failed: certs.len() == 0"}

\* C6 (as claimed): in a run whose phases from register to fill_signees
\* completed in order, regenerate_crypto ends with no assertion of
\* assert_regeneration failing, and then every record is regenerated, every
\* non-root pair is among the non-empty signees of its regenerated signer, and
\* certs is empty.
C6_RegenerationAssertionsHold ==
    pass = 1 =>
        /\ ~(pc = "aborted" /\ fault \in AssertionMessages)
        /\ pc = "regenerate" =>
              /\ \A i \in DOMAIN cert_key_pairs :
                    /\ cert_key_pairs[i].regenerated
                    /\ IsSome(cert_key_pairs[i].signer) =>
                          /\ cert_key_pairs[Unwrap(cert_key_pairs[i].signer)].regenerated
                          /\ <<"CertKeyPair", i>> \in
                                Range(cert_key_pairs[Unwrap(cert_key_pairs[i].signer)].signees)
              /\ \A j \in DOMAIN jwts : jwts[j].regenerated
              /\ \A k \in DOMAIN private_keys : private_keys[k].regenerated
              /\ \A p \in DOMAIN public_keys : public_keys[p].regenerated
              /\ DOMAIN certs = {}

\* How many times regenerate_crypto re-issued the artifact.
TimesIssued(artifact) == Cardinality({n \in DOMAIN issued : issued[n].artifact = artifact})

\* The place in `issued` of the first re-issuance of the artifact.
FirstIssue(artifact) == CHOOSE n \in DOMAIN issued : issued[n].artifact = artifact

\* C7 (as claimed): when regenerate_crypto has completed, every cert-key pair
\* and every jwt has been re-issued exactly once, and each signee after its
\* signer and with the signer's new key.
C7_EachReissuedOnceAfterSigner ==
    pc = "regenerate" =>
        /\ \A i \in DOMAIN cert_key_pairs : TimesIssued(<<"CertKeyPair", i>>) = 1
        /\ \A j \in DOMAIN jwts : TimesIssued(<<"Jwt", j>>) = 1
        /\ \A i \in DOMAIN cert_key_pairs :
              IsSome(cert_key_pairs[i].signer) =>
                 LET s == Unwrap(cert_key_pairs[i].signer)
                 IN  /\ FirstIssue(<<"CertKeyPair", s>>) < FirstIssue(<<"CertKeyPair", i>>)
                     /\ cert_key_pairs[i].distributed_cert.certificate.signed_with
                           = cert_key_pairs[s].distributed_cert.certificate.public_key
        /\ \A j \in DOMAIN jwts :
              /\ jwts[j].signer[1] = "CertKeyPair" =>
                    /\ FirstIssue(<<"CertKeyPair", jwts[j].signer[2]>>) < FirstIssue(<<"Jwt", j>>)
                    /\ jwts[j].jwt.signed_with
                          = cert_key_pairs[jwts[j].signer[2]].distributed_cert.certificate.public_key
              /\ jwts[j].signer[1] = "PrivateKey" =>
                    jwts[j].jwt.signed_with = PublicKeyFrom(private_keys[jwts[j].signer[2]].key)

\* C7, first application only: when regenerate_crypto completes after the
\* phases were applied once, the claim's statement holds.
C7_FirstApplication == pass = 1 => C7_EachReissuedOnceAfterSigner

\* C11 (as claimed): when the whole phase sequence, register to commit, has
\* run a second time on an empty stream, the graph equals the graph the first
\* run left and the second run wrote what the first run wrote.
C11_SecondRunChangesNothing ==
    (pc = "commit" /\ IsSome(first_writes)) =>
        /\ Graph = Unwrap(first)
        /\ Len(writes) = Len(Unwrap(first_writes))
        /\ Range(writes) = Range(Unwrap(first_writes))

\* C12: while ingestion is open, registering an event a second time, right
\* after the first or with another event in between, and whatever was
\* registered before, gives the registries, the public-to-private index and
\* the Locations sets that registering it once gives; and registering again
\* an event of the stream folded so far changes nothing.
C12_SameEventTwiceIsOnce ==
    (pc = "register" /\ pass = 1) =>
        /\ \A e \in discovered : RegisterOne(Graph, e) = Graph
        /\ \A e, f \in Events :
              /\ RegisterAll(Graph, <<e, e>>) = RegisterAll(Graph, <<e>>)
              /\ RegisterAll(Graph, <<e, f, e>>) = RegisterAll(Graph, <<e, f>>)
              /\ RegisterAll(Graph, <<f, e, e>>) = RegisterAll(Graph, <<f, e>>)

\* C12 witness: ingestion is open on a stream that has filled all four
\* registries, one content of it seen at both locations.
C12_Witness ==
    /\ pc = "register"
    /\ pass = 1
    /\ DOMAIN private_keys # {}
    /\ DOMAIN public_keys # {}
    /\ DOMAIN certs # {}
    /\ DOMAIN jwts # {}
    /\ \E j \in DOMAIN jwts : jwts[j].locations = Locations

\* How many times the run wrote `write`.
TimesWritten(write) == Cardinality({n \in DOMAIN writes : writes[n] = write})

\* The writes of the run that are of `kind` and of `record`.
WritesOf(kind, record) ==
    {n \in DOMAIN writes : writes[n][1] = kind /\ writes[n][2] = record}

\* Whether the writes of `record` are one write of `form` at each location of
\* `locations`, and no other.
WrittenOncePerLocation(kind, record, locations, form) ==
    /\ \A location \in locations : TimesWritten(Write(kind, record, location, form)) = 1
    /\ Cardinality(WritesOf(kind, record)) = Cardinality(locations)

\* What C13 says of the state a commit has returned in.
C13_EveryLocationWritten ==
    pc = "commit" =>
        /\ \A i \in DOMAIN cert_key_pairs :
              /\ WrittenOncePerLocation("Certificate", i,
                     cert_key_pairs[i].distributed_cert.locations,
                     cert_key_pairs[i].distributed_cert.certificate)
              /\ IF IsSome(cert_key_pairs[i].distributed_private_key)
                 THEN WrittenOncePerLocation("PairPrivateKey", i,
                          Unwrap(cert_key_pairs[i].distributed_private_key).locations,
                          Unwrap(cert_key_pairs[i].distributed_private_key).key)
                 ELSE WritesOf("PairPrivateKey", i) = {}
        /\ \A j \in DOMAIN jwts :
              WrittenOncePerLocation("Jwt", j, jwts[j].locations, jwts[j].jwt)
        /\ \A k \in DOMAIN private_keys :
              WrittenOncePerLocation("PrivateKey", k, private_keys[k].locations,
                                     private_keys[k].key)
        /\ \A p \in DOMAIN public_keys :
              WrittenOncePerLocation("PublicKey", p, public_keys[p].locations,
                                     public_keys[p].key)
        /\ Len(writes) = Cardinality(discovered)

\* What C13 says of the steps of a commit.
C13_CommitChangesNoRecord ==
    (pc \in {"regenerate", "committing"} /\ pc' \in {"committing", "commit"}) =>
        UNCHANGED graph

\* C13: when commit_to_etcd_and_disk has returned, every cert-key pair (its
\* cert, and its private key if it has one), every jwt, every standalone
\* private key and every public key has been written in its current form
\* once at each location of its Locations and nowhere else, so that the run
\* wrote as many times as the stream had {object, location} events; and no
\* step of the commit changes a record of the graph.
C13_CommitWritesEveryLocationOnce ==
    [](C13_EveryLocationWritten) /\ [][C13_CommitChangesNoRecord]_vars

\* C13 witness: a commit has returned on a graph with a cert-key pair, a jwt,
\* a standalone private key and a public key, one of them at two locations.
C13_Witness ==
    /\ pc = "commit"
    /\ cert_key_pairs # <<>>
    /\ DOMAIN jwts # {}
    /\ DOMAIN private_keys # {}
    /\ DOMAIN public_keys # {}
    /\ \E i \in DOMAIN cert_key_pairs :
          cert_key_pairs[i].distributed_cert.locations = Locations
    /\ Len(writes) = 5

\* C14: while commit_to_etcd_and_disk is in its body, suspended at an await
\* or not, the call holds the aggregate mutex, and a display call of another
\* task that waits for the mutex does not run before the commit has returned.
\* The other phase methods do not suspend: each runs from lock to return in
\* one step.
C14_PhasesNeverInterleave ==
    /\ [](pc = "committing" => mutex = Some("commit_to_etcd_and_disk"))
    /\ [][pc = "committing" => displayed' = displayed]_vars

\* C14 witness: a commit is suspended between two of its writes while a
\* display call of the second task waits for the mutex.
C14_Witness ==
    /\ pc = "committing"
    /\ writes # <<>>
    /\ pending # <<>>
    /\ observer = "waiting"

\* Whether an entry of the allowlist matches the subject, as a literal or as
\* a pattern.
Allowlisted(subject) ==
    \E entry \in KNOWN_MISSING_PRIVATE_KEY_CERTS :
        entry = subject \/ RegexIsMatch(entry, subject)

\* Whether the cert's subject public key is missing from the index.
MissingPrivateKey(cert) == cert.public_key \notin DOMAIN public_to_private

\* The fault pair_certs_and_keys raises for a cert without private key.
MissingKeyFault ==
    /\ pc = "aborted"
    /\ fault = "Private key not found for cert not in KNOWN_MISSING_PRIVATE_KEY_CERTS"

\* C15: when pair_certs_and_keys has completed, every cert of the stream
\* whose subject public key is not in the index is on the allowlist, by a
\* literal or by a pattern, and is paired with no private key; it aborts for
\* a missing key only on a cert that is not on the allowlist; and then no
\* pair holds such a cert.
C15_MissingKeyAllowlistedOrAbort ==
    pass = 1 =>
        /\ pc = "pair" =>
              \A c \in {d \in DiscoveredCerts : MissingPrivateKey(d)} :
                  /\ Allowlisted(c.subject)
                  /\ \A i \in PairsOf(c) : cert_key_pairs[i].distributed_private_key = None
                  /\ PairsOf(c) # {}
        /\ MissingKeyFault =>
              /\ \E c \in DOMAIN certs : MissingPrivateKey(c) /\ ~Allowlisted(c.subject)
              /\ \A i \in DOMAIN cert_key_pairs :
                    LET c == cert_key_pairs[i].distributed_cert.certificate
                    IN  MissingPrivateKey(c) =>
                           /\ Allowlisted(c.subject)
                           /\ cert_key_pairs[i].distributed_private_key = None

\* C15 witness: a completed pairing with a keyless cert the allowlist has as
\* a literal and a keyless cert only a pattern of the allowlist matches.
C15_Witness ==
    /\ pc = "pair"
    /\ pass = 1
    /\ \E i, j \in DOMAIN cert_key_pairs :
          /\ cert_key_pairs[i].distributed_private_key = None
          /\ cert_key_pairs[i].distributed_cert.certificate.subject
                \in KNOWN_MISSING_PRIVATE_KEY_CERTS
          /\ cert_key_pairs[j].distributed_private_key = None
          /\ cert_key_pairs[j].distributed_cert.certificate.subject
                \notin KNOWN_MISSING_PRIVATE_KEY_CERTS

\* C16: in a run of the phases in order, the persistence collaborator has a
\* write of the run only once commit_to_etcd_and_disk has been called, with
\* no phase before it aborted and every assertion of assert_regeneration
\* true of the graph; a run that aborted has written nothing.
C16_NoWriteBeforeFullSuccess ==
    /\ writes # <<>> =>
          /\ pc \in {"committing", "commit"}
          /\ fault = ""
          /\ AssertRegeneration(Graph) = ""
    /\ pc = "aborted" => writes = <<>>

\* C16 witness: a commit is writing, in a run that paired a cert, resolved a
\* jwt and passed assert_regeneration.
C16_Witness ==
    /\ pc = "committing"
    /\ pass = 1
    /\ writes # <<>>
    /\ cert_key_pairs # <<>>
    /\ DOMAIN jwts # {}

\* The panics of RefCell::borrow_mut and RefCell::borrow.
BorrowFaults == {"already borrowed: BorrowMutError", "already mutably borrowed: BorrowError"}

\* The DistributedPublicKey the registry has for a public key, if it has one.
Registered(public_key) ==
    IF public_key \in DOMAIN public_keys THEN Some(public_key) ELSE None

\* C17 (as claimed): associate_public_keys completes, and then every
\* cert-key pair has as associated public key the registry's record of its
\* cert's subject public key, if there is one, every standalone private key
\* the registry's record of its derived public half, if there is one, and
\* none otherwise.
C17_AssociatesMatchingPublicKeys ==
    pass = 1 =>
        /\ pc = "aborted" => fault # "already borrowed: BorrowMutError"
        /\ pc = "associate" =>
              /\ \A i \in DOMAIN cert_key_pairs :
                    cert_key_pairs[i].associated_public_key
                       = Registered(cert_key_pairs[i].distributed_cert.certificate.public_key)
              /\ \A k \in DOMAIN private_keys :
                    private_keys[k].associated_distributed_public_key
                       = Registered(PublicKeyFrom(private_keys[k].key))

\* C18 (as claimed): no phase ends in a runtime borrow fault.
C18_NoBorrowFault == fault \notin BorrowFaults

\* Whether following signer from pair i leads, in at most n steps, to a pair
\* with no signer.
RECURSIVE ReachesRoot(_, _)
ReachesRoot(i, n) ==
    IF cert_key_pairs[i].signer = None THEN TRUE
    ELSE IF n = 0 THEN FALSE
    ELSE ReachesRoot(Unwrap(cert_key_pairs[i].signer), n - 1)

\* C19 (as claimed): when fill_cert_key_signers has completed, no cert-key
\* pair is its own signer and the signer relation has no cycle: from every
\* pair the chain of signers ends at a root.
C19_SignerRelationAcyclic ==
    pc = "cert_signers" =>
        \A i \in DOMAIN cert_key_pairs :
            /\ cert_key_pairs[i].signer # Some(i)
            /\ ReachesRoot(i, Len(cert_key_pairs))

\* C20 (as claimed): in fill_jwt_signers, when the first jwt has left a
\* cached last signer and that key does not verify the second jwt, the
\* standalone private keys are scanned, and the first of them that verifies
\* the second jwt is adopted as its PrivateKey signer and becomes the cached
\* signer.
C20_CacheMissScansRegistry ==
    (pc = "cert_signers" /\ Len(Values("jwts", jwts)) >= 2) =>
        LET order == Values("jwts", jwts)
            keys == Values("private_keys", private_keys)
            last_signer == FirstVerifyingKey(Graph, keys, jwts[order[1]])
            distributed_jwt == jwts[order[2]]
            found == FirstVerifyingKey(Graph, keys, distributed_jwt)
            guess == StandaloneGuess(Graph, keys, last_signer, distributed_jwt)
        IN  (/\ IsSome(last_signer)
             /\ ~verify_jwt(PublicKeyFrom(private_keys[Unwrap(last_signer)].key),
                            distributed_jwt)
             /\ IsSome(found)) =>
                /\ guess.signer = <<"PrivateKey", Unwrap(found)>>
                /\ guess.last_signer = found

\* C21 (as claimed): on registries and an index built by
\* register_discovered_crypto_objects alone, pair_certs_and_keys never raises
\* the fault "Private key not found".
C21_NoPrivateKeyNotFound ==
    ~(pc = "aborted" /\ fault = "Private key not found")

\* The candidates confirmed to have signed the cert of pair i.
ConfirmedCandidates(i) ==
    {j \in DOMAIN cert_key_pairs : ConfirmedSigner(cert_key_pairs, i, j)}

\* C22: when fill_cert_key_signers has completed, the signer of a pair whose
\* cert is not self-signed is the last, in the order of cert_key_pairs, of
\* the candidates that verify, however many verify.
C22_LastVerifyingCandidateWins ==
    pc = "cert_signers" =>
        \A i \in DOMAIN cert_key_pairs :
            ~subject_is_issuer(cert_key_pairs[i].distributed_cert.certificate) =>
                /\ ConfirmedCandidates(i) # {}
                /\ cert_key_pairs[i].signer
                      = Some(CHOOSE j \in ConfirmedCandidates(i) :
                                \A k \in ConfirmedCandidates(i) : k <= j)

\* C22 witness: a completed resolution where two pairs other than pair i
\* verify as signer of pair i, and the later of them is its signer.
C22_Witness ==
    /\ pc = "cert_signers"
    /\ \E i, j, k \in DOMAIN cert_key_pairs :
          /\ j < k
          /\ i \notin {j, k}
          /\ {j, k} \subseteq ConfirmedCandidates(i)
          /\ cert_key_pairs[i].signer = Some(k)

\* What native verification reports for the cert of pair i against the cert
\* of candidate j.
NativeResult(i, j) ==
    verify_signed_by_certificate(cert_key_pairs[i].distributed_cert.certificate,
                                 cert_key_pairs[j].distributed_cert.certificate)

\* The pairs whose signer the scan has to find.
NotSelfSigned ==
    {i \in DOMAIN cert_key_pairs :
        ~subject_is_issuer(cert_key_pairs[i].distributed_cert.certificate)}

\* The fault the scan raises on a verification error it does not handle.
VerifyFault == pc = "aborted" /\ fault = "Error verifying signed by certificate"

\* C23: when fill_cert_key_signers has completed, native verification gave
\* no error other than mismatch and unsupported algorithm, and no pair has as
\* signer a candidate that mismatched or an unsupported candidate the OpenSSL
\* fallback did not confirm, while such candidates did not end the run; and
\* when it aborts on a verification error, some pair met an error of another
\* kind and has no signer, and in a first run neither have the pairs after it
\* while the pairs before it have theirs.
C23_ScanOutcomes ==
    /\ pc = "cert_signers" =>
          \A i \in NotSelfSigned : \A j \in DOMAIN cert_key_pairs :
              /\ NativeResult(i, j) \in {"Ok", "CertificateSignatureVerificationFailed",
                                         "UnsupportedSignatureVerification"}
              /\ NativeResult(i, j) = "CertificateSignatureVerificationFailed" =>
                    cert_key_pairs[i].signer # Some(j)
              /\ (/\ NativeResult(i, j) = "UnsupportedSignatureVerification"
                  /\ ~openssl_is_signed(cert_key_pairs[j], cert_key_pairs[i])) =>
                    cert_key_pairs[i].signer # Some(j)
              /\ (/\ NativeResult(i, j) = "UnsupportedSignatureVerification"
                  /\ openssl_is_signed(cert_key_pairs[j], cert_key_pairs[i])) =>
                    \E k \in DOMAIN cert_key_pairs :
                        k >= j /\ cert_key_pairs[i].signer = Some(k)
    /\ VerifyFault =>
          \E i \in NotSelfSigned :
              /\ \E j \in DOMAIN cert_key_pairs :
                    NativeResult(i, j) \notin
                        {"Ok", "CertificateSignatureVerificationFailed",
                         "UnsupportedSignatureVerification"}
              /\ cert_key_pairs[i].signer = None
              /\ pass = 1 =>
                    /\ \A k \in DOMAIN cert_key_pairs :
                          k >= i => cert_key_pairs[k].signer = None
                    /\ \A k \in NotSelfSigned :
                          k < i => IsSome(cert_key_pairs[k].signer)

\* C23 witness: a completed resolution where a pair with an unsupported
\* algorithm has as signer the candidate the fallback confirmed, after the
\* fallback refused another candidate and next to a pair with a mismatching
\* candidate.
C23_Witness ==
    /\ pc = "cert_signers"
    /\ \E i, j, k \in DOMAIN cert_key_pairs :
          /\ NativeResult(i, j) = "UnsupportedSignatureVerification"
          /\ openssl_is_signed(cert_key_pairs[j], cert_key_pairs[i])
          /\ cert_key_pairs[i].signer = Some(j)
          /\ NativeResult(i, k) = "UnsupportedSignatureVerification"
          /\ ~openssl_is_signed(cert_key_pairs[k], cert_key_pairs[i])
    /\ \E i \in NotSelfSigned : \E j \in DOMAIN cert_key_pairs :
          NativeResult(i, j) = "CertificateSignatureVerificationFailed"

\* The fault the scan raises for a pair that no candidate signed.
NoSignerFault == pc = "aborted" /\ fault = "No signing cert found"

\* C24: when a pair whose cert is not self-signed has no candidate that
\* verifies, fill_cert_key_signers ends in a fault; it never completes with
\* such a pair, nor with a pair that is not self-signed and has no signer; and
\* when it aborts for want of a signer, some such pair exists and has none.
C24_NoSignerAborts ==
    /\ pc = "associate" =>
          ((\E i \in NotSelfSigned : ConfirmedCandidates(i) = {}) =>
              FillCertKeySigners(Graph, 1).fault
                  \in {"No signing cert found", "Error verifying signed by certificate"})
    /\ pc = "cert_signers" =>
          \A i \in NotSelfSigned :
              /\ ConfirmedCandidates(i) # {}
              /\ IsSome(cert_key_pairs[i].signer)
    /\ NoSignerFault =>
          \E i \in NotSelfSigned :
              /\ ConfirmedCandidates(i) = {}
              /\ cert_key_pairs[i].signer = None

\* C24 witness: the resolution aborted for a pair that is not self-signed,
\* whose candidates include another pair, and that none of them signed.
C24_Witness ==
    /\ NoSignerFault
    /\ \E i \in NotSelfSigned :
          /\ ConfirmedCandidates(i) = {}
          /\ cert_key_pairs[i].signer = None
          /\ \E j \in DOMAIN cert_key_pairs :
                /\ j # i
                /\ NativeResult(i, j) = "CertificateSignatureVerificationFailed"

\* The registry of graph g that holds the records of a kind of content.
RegistryOf(g, kind) ==
    CASE kind = "PrivateKey" -> g.private_keys
      [] kind = "PublicKey" -> g.public_keys
      [] kind = "Certificate" -> g.certs
      [] kind = "Jwt" -> g.jwts

\* The content an event's record is registered under.
ContentOf(e) == IF e.kind = "PrivateKey" THEN e.object[1] ELSE e.object

\* The event reports a content its registry already holds.
Reobserved(e) == ContentOf(e) \in DOMAIN RegistryOf(Graph, e.kind)

\* C25: in every state, before and after resolution, registering an event
\* whose content its registry already holds changes that record's Locations
\* by the event's location and nothing else: the record's other fields, the
\* other records of the registry, the other registries, the index from public
\* to private keys and cert_key_pairs stay as they were.
C25_ReobservationFrame ==
    \A e \in Events :
        Reobserved(e) =>
            LET g == RegisterOne(Graph, e)
                before == RegistryOf(Graph, e.kind)
                after == RegistryOf(g, e.kind)
                content == ContentOf(e)
            IN  /\ DOMAIN after = DOMAIN before
                /\ after[content]
                      = [before[content] EXCEPT !.locations = @ \cup {e.location}]
                /\ \A other \in DOMAIN before \ {content} :
                      after[other] = before[other]
                /\ \A kind \in {"PrivateKey", "PublicKey", "Certificate", "Jwt"} \ {e.kind} :
                      RegistryOf(g, kind) = RegistryOf(Graph, kind)
                /\ g.public_to_private = public_to_private
                /\ g.cert_key_pairs = cert_key_pairs
                /\ g.fault = ""

\* C25 witness: ingestion has registered a content at two locations next to
\* another record of the same registry seen at one, both of which an event
\* can report again.
C25_Witness ==
    /\ pc = "register"
    /\ \E e1, e2, e3 \in discovered :
          /\ e1.kind = e2.kind /\ e2.kind = e3.kind
          /\ ContentOf(e1) = ContentOf(e2)
          /\ e1.location # e2.location
          /\ ContentOf(e3) # ContentOf(e1)
          /\ RegistryOf(Graph, e1.kind)[ContentOf(e1)].locations = {"etcd", "disk"}
          /\ RegistryOf(Graph, e3.kind)[ContentOf(e3)].locations = {e3.location}
          /\ Reobserved(e3)

====
